---------------------------- MODULE Spec2Model ----------------------------
(***************************************************************************)
(* The per-worker runtime of the P2P shuffle                               *)
(* (distributed/shuffle/_worker_extension.py).                             *)
(*                                                                         *)
(* Two layers are modelled, each with its own specification:               *)
(*   Spec     the registry, ShuffleWorkerExtension: `shuffles`, `_runs`,   *)
(*            the lookups, _refresh_shuffle, shuffle_fail, the background  *)
(*            closes and the extension's close;                            *)
(*   RunSpec  one ShuffleRun: add_partition, receive, inputs_done,         *)
(*            get_output_partition, close and fail as coroutines of one    *)
(*            event loop, with its comm buffer and its disk buffer.        *)
(* One action is one synchronous segment of a coroutine: the code between  *)
(* two awaits runs without interleaving on the single event loop.          *)
(***************************************************************************)
EXTENDS Naturals, Integers, Sequences, FiniteSets

VARIABLES
  \* ---- ShuffleWorkerExtension ----
  runs,        \* every ShuffleRun constructed so far, in construction order
  shuffles,    \* ShuffleWorkerExtension.shuffles: shuffle id -> run (0: no entry)
  _runs,       \* ShuffleWorkerExtension._runs
  ext_closed,  \* ShuffleWorkerExtension.closed
  tasks,       \* the lookup coroutines (_get_shuffle_run, _get_or_create_shuffle)
  bg,          \* worker._ongoing_background_tasks: per run, its closing task
  ext_pc,      \* position of ShuffleWorkerExtension.close
  sched,       \* the scheduler's current run_id per shuffle id (0: unknown)
  fail_msgs,   \* shuffle-fail stream messages in flight
  remove_err,  \* a `_runs.remove` raised KeyError
  \* ---- one ShuffleRun ----
  closed, closed_event, transferred, received, total_recvd, exception,
  comm,        \* the CommShardsBuffer
  disk,        \* the DiskShardsBuffer
  executor,    \* the ThreadPoolExecutor: number of shutdowns
  co,          \* the coroutines suspended on this ShuffleRun
  calls,       \* number of coroutines started so far
  last         \* the call that returned or raised last, and its outcome

extVars == <<runs, shuffles, _runs, ext_closed, tasks, bg, ext_pc, sched,
             fail_msgs, remove_err>>
runVars == <<closed, closed_event, transferred, received, total_recvd,
             exception, comm, disk, executor, co, calls, last>>
vars == <<extVars, runVars>>

(***************************************************************************)
(* Bounds of the registry model.                                           *)
(***************************************************************************)
MaxRuns == 3
MaxTasks == 3
MaxRunId == 2

ShuffleIds == {"s1", "s2"}
RunIds == 1..MaxRunId
TaskIds == 1..MaxTasks
RunRefs == 1..Len(runs)

NoExc == "none"

(***************************************************************************)
(* ShuffleRun as the registry sees it.                                     *)
(***************************************************************************)
\* ShuffleRun.__init__: closed = False, _exception = None, _closed_event clear.
ShuffleRun(id, run_id) ==
  [id |-> id, run_id |-> run_id, exception |-> NoExc,
   closed |-> FALSE, closed_event |-> FALSE]

\* The scratch directory _refresh_shuffle gives the run it constructs:
\* <local_directory>/shuffle-<shuffle_id>-<run_id>.
Directory(run) == <<"shuffle", run.id, run.run_id>>

\* ShuffleRun.fail: set the exception unless the run is closed.
RunFail(rs, r, e) ==
  IF rs[r].closed THEN rs ELSE [rs EXCEPT ![r].exception = e]

\* The first segment of ShuffleRun.close: a closed run is only waited for,
\* otherwise closed = True and the buffers' closes are awaited.
RunCloseBegin(rs, r) ==
  IF rs[r].closed THEN rs ELSE [rs EXCEPT ![r].closed = TRUE]

\* The last segment of ShuffleRun.close, run by the call that tears down.
RunCloseEnd(rs, r) == [rs EXCEPT ![r].closed_event = TRUE]

(***************************************************************************)
(* Results of a lookup coroutine.                                          *)
(***************************************************************************)
Pending == [st |-> "none", run |-> 0, err |-> NoExc]
Ok(r) == [st |-> "ok", run |-> r, err |-> NoExc]
Err(e) == [st |-> "err", run |-> 0, err |-> e]

IdleTask ==
  [op |-> "none", id |-> "s1", run_id |-> 0, pc |-> "idle",
   reply |-> 0, result |-> Pending]

ExtInit ==
  /\ runs = <<>>
  /\ shuffles = [s \in ShuffleIds |-> 0]
  /\ _runs = {}
  /\ ext_closed = FALSE
  /\ tasks = [t \in TaskIds |-> IdleTask]
  /\ bg = <<>>
  /\ ext_pc = [pc |-> "idle", run |-> 0]
  /\ sched = [s \in ShuffleIds |-> 0]
  /\ fail_msgs = {}
  /\ remove_err = FALSE

(***************************************************************************)
(* _get_shuffle_run and _get_or_create_shuffle.                            *)
(***************************************************************************)
\* Mutant: _get_shuffle_run without the check of the run's exception.
GetRunChecks_NoException(rs, r, run_id) ==
  IF run_id < rs[r].run_id THEN Err("Stale shuffle")
  ELSE IF run_id > rs[r].run_id THEN Err("Invalid shuffle state")
  ELSE Ok(r)

\* _get_shuffle_run, after the lookup or the refresh: the run_id checks and the
\* check of the run's exception.
GetRunChecks(rs, r, run_id) ==
  IF run_id < rs[r].run_id THEN Err("Stale shuffle")
  ELSE IF run_id > rs[r].run_id THEN Err("Invalid shuffle state")
  ELSE IF rs[r].exception # NoExc THEN Err(rs[r].exception)
  ELSE Ok(r)

\* Mutant: _get_or_create_shuffle without the check of the extension's closed.
GetOrCreateChecks_NoClosed(rs, r, isClosed) ==
  IF rs[r].exception # NoExc THEN Err(rs[r].exception)
  ELSE Ok(r)

\* _get_or_create_shuffle, after the lookup or the refresh.
GetOrCreateChecks(rs, r, isClosed) ==
  IF isClosed THEN Err("ShuffleClosedError")
  ELSE IF rs[r].exception # NoExc THEN Err(rs[r].exception)
  ELSE Ok(r)

\* What the caller of _refresh_shuffle does with the run it got.
Checks(t, rs, r, isClosed) ==
  IF tasks[t].op = "get_run"
  THEN GetRunChecks(rs, r, tasks[t].run_id)
  ELSE GetOrCreateChecks(rs, r, isClosed)

\* A new lookup coroutine takes the first free slot.
CanLookup(t) ==
  /\ tasks[t].pc = "idle"
  /\ \A u \in TaskIds : u < t => tasks[u].pc # "idle"

\* _get_shuffle_run refreshes when there is no run or the local one is older.
GetRunNeedsRefresh(s, run_id) ==
  shuffles[s] = 0 \/ runs[shuffles[s]].run_id < run_id

\* _get_shuffle_run(shuffle_id, run_id), up to its first await or its return.
GetShuffleRun(t, s, run_id) ==
  /\ CanLookup(t)
  /\ IF GetRunNeedsRefresh(s, run_id)
     THEN tasks' = [tasks EXCEPT ![t] =
            [IdleTask EXCEPT !.op = "get_run", !.id = s, !.run_id = run_id,
                             !.pc = "await_get"]]
     ELSE tasks' = [tasks EXCEPT ![t] =
            [IdleTask EXCEPT !.op = "get_run", !.id = s, !.run_id = run_id,
                             !.pc = "done",
                             !.result = GetRunChecks(runs, shuffles[s], run_id)]]
  /\ UNCHANGED <<runs, shuffles, _runs, ext_closed, bg, ext_pc, sched,
                 fail_msgs, remove_err>>

\* _get_or_create_shuffle(shuffle_id, ...), up to its first await or its return.
GetOrCreateShuffle(t, s) ==
  /\ CanLookup(t)
  /\ IF shuffles[s] = 0
     THEN tasks' = [tasks EXCEPT ![t] =
            [IdleTask EXCEPT !.op = "get_or_create", !.id = s,
                             !.pc = "await_get"]]
     ELSE tasks' = [tasks EXCEPT ![t] =
            [IdleTask EXCEPT !.op = "get_or_create", !.id = s, !.pc = "done",
                             !.result =
                               GetOrCreateChecks(runs, shuffles[s], ext_closed)]]
  /\ UNCHANGED <<runs, shuffles, _runs, ext_closed, bg, ext_pc, sched,
                 fail_msgs, remove_err>>

(***************************************************************************)
(* The scheduler, as the worker sees it: shuffle_get and shuffle-fail.     *)
(***************************************************************************)
\* scheduler.shuffle_get: the reply is fixed when the scheduler handles the
\* request and reaches the worker later.  A shuffle the scheduler does not know
\* is registered when the request carries the schema (get_or_create) and is an
\* ERROR otherwise; reply 0 stands for {status: ERROR}.
SchedulerShuffleGet(t) ==
  /\ tasks[t].pc = "await_get"
  /\ LET s == tasks[t].id IN
       \/ /\ sched[s] = 0
          /\ tasks[t].op = "get_or_create"
          /\ sched' = [sched EXCEPT ![s] = 1]
          /\ tasks' = [tasks EXCEPT ![t].pc = "got_reply", ![t].reply = 1]
       \/ /\ sched[s] = 0
          /\ tasks[t].op = "get_run"
          /\ sched' = sched
          /\ tasks' = [tasks EXCEPT ![t].pc = "got_reply", ![t].reply = 0]
       \/ /\ sched[s] > 0
          /\ sched' = sched
          /\ tasks' = [tasks EXCEPT ![t].pc = "got_reply", ![t].reply = sched[s]]
  /\ UNCHANGED <<runs, shuffles, _runs, ext_closed, bg, ext_pc, fail_msgs,
                 remove_err>>

\* The scheduler restarts a shuffle: it issues the next run_id and sends
\* shuffle-fail for the run it gives up.
SchedulerRestart(s) ==
  /\ sched[s] > 0
  /\ sched[s] < MaxRunId
  /\ sched' = [sched EXCEPT ![s] = sched[s] + 1]
  /\ fail_msgs' = fail_msgs \cup {<<s, sched[s]>>}
  /\ UNCHANGED <<runs, shuffles, _runs, ext_closed, tasks, bg, ext_pc,
                 remove_err>>

(***************************************************************************)
(* _refresh_shuffle, from the scheduler's reply on.                        *)
(***************************************************************************)
\* Mutant: the eviction forgets to fail the run it evicts.
EvictFail_Skipped(rs, r) == rs

\* The eviction of _refresh_shuffle: fail the existing run with "Stale Shuffle".
EvictFail(rs, r) == RunFail(rs, r, "Stale Shuffle")

\* Mutant: the refresh keeps only a strictly newer run.
KeepsExisting_Strict(existing_run_id, reply_run_id) ==
  existing_run_id > reply_run_id

\* Whether _refresh_shuffle keeps the run it finds in `shuffles`.
KeepsExisting(existing_run_id, reply_run_id) == existing_run_id >= reply_run_id

RefreshShuffle(t) ==
  /\ tasks[t].pc = "got_reply"
  /\ LET s == tasks[t].id
         reply == tasks[t].reply
         existing == shuffles[s]
         new == Len(runs) + 1
     IN
       IF reply = 0
       THEN \* result["status"] == "ERROR"
            /\ tasks' = [tasks EXCEPT ![t].pc = "done",
                                      ![t].result = Err("SchedulerError")]
            /\ UNCHANGED <<runs, shuffles, _runs, bg>>
       ELSE IF ext_closed
       THEN /\ tasks' = [tasks EXCEPT ![t].pc = "done",
                                      ![t].result = Err("ShuffleClosedError")]
            /\ UNCHANGED <<runs, shuffles, _runs, bg>>
       ELSE IF existing # 0 /\ KeepsExisting(runs[existing].run_id, reply)
       THEN /\ tasks' = [tasks EXCEPT ![t].pc = "done",
                           ![t].result = Checks(t, runs, existing, ext_closed)]
            /\ UNCHANGED <<runs, shuffles, _runs, bg>>
       ELSE /\ Len(runs) < MaxRuns
            /\ LET evicted == IF existing # 0 THEN EvictFail(runs, existing)
                              ELSE runs
                   rs == Append(evicted, ShuffleRun(s, reply))
               IN /\ runs' = rs
                  /\ bg' = Append(IF existing # 0
                                  THEN [bg EXCEPT ![existing] = "scheduled"]
                                  ELSE bg, "none")
                  /\ tasks' = [tasks EXCEPT ![t].pc = "done",
                                 ![t].result = Checks(t, rs, new, ext_closed)]
            /\ shuffles' = [shuffles EXCEPT ![s] = new]
            /\ _runs' = _runs \cup {new}
  /\ UNCHANGED <<ext_closed, ext_pc, sched, fail_msgs, remove_err>>

(***************************************************************************)
(* The RPC handlers shuffle_receive and shuffle_inputs_done on the run a   *)
(* lookup returned: what the registry sees of them is the error they latch.*)
(***************************************************************************)
\* The `except Exception as e: self._exception = e` of _receive and of
\* inputs_done, on a run some _get_shuffle_run has returned.
RunLatch(r) ==
  /\ r \in RunRefs
  /\ \E t \in TaskIds : tasks[t].result = Ok(r)
  /\ runs[r].exception # "HandlerError"
  /\ runs' = [runs EXCEPT ![r].exception = "HandlerError"]
  /\ UNCHANGED <<shuffles, _runs, ext_closed, tasks, bg, ext_pc, sched,
                 fail_msgs, remove_err>>

(***************************************************************************)
(* shuffle_fail, the stream handler: one synchronous step.                 *)
(***************************************************************************)
\* Mutant: shuffle_fail without the comparison of the run_ids.
FailApplies_AnyRun(s, run_id) == shuffles[s] # 0

\* The guard of shuffle_fail: a run is there and its run_id is the message's.
FailApplies(s, run_id) ==
  shuffles[s] # 0 /\ runs[shuffles[s]].run_id = run_id

\* Mutant: shuffle_fail without `self.shuffles.pop(shuffle_id)`.
ShuffleFail_NoPop(s, run_id) ==
  /\ <<s, run_id>> \in fail_msgs
  /\ fail_msgs' = fail_msgs \ {<<s, run_id>>}
  /\ IF FailApplies(s, run_id)
     THEN /\ shuffles' = shuffles
          /\ runs' = RunFail(runs, shuffles[s], "ShuffleFail")
          /\ bg' = [bg EXCEPT ![shuffles[s]] = "scheduled"]
     ELSE UNCHANGED <<shuffles, runs, bg>>
  /\ UNCHANGED <<_runs, ext_closed, tasks, ext_pc, sched, remove_err>>

ShuffleFail(s, run_id) ==
  /\ <<s, run_id>> \in fail_msgs
  /\ fail_msgs' = fail_msgs \ {<<s, run_id>>}
  /\ IF FailApplies(s, run_id)
     THEN /\ shuffles' = [shuffles EXCEPT ![s] = 0]
          /\ runs' = RunFail(runs, shuffles[s], "ShuffleFail")
          /\ bg' = [bg EXCEPT ![shuffles[s]] = "scheduled"]
     ELSE UNCHANGED <<shuffles, runs, bg>>
  /\ UNCHANGED <<_runs, ext_closed, tasks, ext_pc, sched, remove_err>>

(***************************************************************************)
(* The background task of an evicted run: await shuffle.close(), then      *)
(* extension._runs.remove(shuffle).                                        *)
(***************************************************************************)
\* set.remove: KeyError when the element is missing.
RunsRemove(r) ==
  /\ _runs' = _runs \ {r}
  /\ remove_err' = (remove_err \/ r \notin _runs)

BackgroundCloseBegin(r) ==
  /\ r \in RunRefs
  /\ bg[r] = "scheduled"
  /\ bg' = [bg EXCEPT ![r] = IF runs[r].closed THEN "waiting" ELSE "closing"]
  /\ runs' = RunCloseBegin(runs, r)
  /\ UNCHANGED <<shuffles, _runs, ext_closed, tasks, ext_pc, sched, fail_msgs,
                 remove_err>>

BackgroundCloseEnd(r) ==
  /\ r \in RunRefs
  /\ \/ /\ bg[r] = "closing"
        /\ runs' = RunCloseEnd(runs, r)
     \/ /\ bg[r] = "waiting"
        /\ runs[r].closed_event
        /\ runs' = runs
  /\ bg' = [bg EXCEPT ![r] = "done"]
  /\ RunsRemove(r)
  /\ UNCHANGED <<shuffles, ext_closed, tasks, ext_pc, sched, fail_msgs>>

(***************************************************************************)
(* ShuffleWorkerExtension.close.                                           *)
(***************************************************************************)
\* The run `while self.shuffles: popitem()` takes next (0: the loop ends).
\* dict.popitem takes the key inserted last: the one holding the newest run.
PopItem(sh) ==
  IF \E s \in ShuffleIds : sh[s] # 0
  THEN CHOOSE s \in ShuffleIds : sh[s] # 0 /\ \A x \in ShuffleIds : sh[x] <= sh[s]
  ELSE "none"

\* close(): assert not closed; closed = True; pop the first run and start its
\* close, or return when `shuffles` is empty.
ExtCloseBegin ==
  /\ ext_pc.pc = "idle"
  /\ ~ext_closed
  /\ ext_closed' = TRUE
  /\ LET s == PopItem(shuffles) IN
       IF s = "none"
       THEN /\ ext_pc' = [pc |-> "done", run |-> 0]
            /\ UNCHANGED <<shuffles, runs>>
       ELSE /\ ext_pc' = [pc |-> "closing", run |-> shuffles[s]]
            /\ shuffles' = [shuffles EXCEPT ![s] = 0]
            /\ runs' = RunCloseBegin(runs, shuffles[s])
  /\ UNCHANGED <<_runs, tasks, bg, sched, fail_msgs, remove_err>>

\* The awaited shuffle.close() returns: _runs.remove(shuffle), then the next
\* round of the loop.
ExtCloseStep ==
  /\ ext_pc.pc = "closing"
  /\ LET r == ext_pc.run
         rs == RunCloseEnd(runs, r)
         s == PopItem(shuffles)
     IN /\ RunsRemove(r)
        /\ IF s = "none"
           THEN /\ ext_pc' = [pc |-> "done", run |-> 0]
                /\ runs' = rs
                /\ UNCHANGED shuffles
           ELSE /\ ext_pc' = [pc |-> "closing", run |-> shuffles[s]]
                /\ shuffles' = [shuffles EXCEPT ![s] = 0]
                /\ runs' = RunCloseBegin(rs, shuffles[s])
  /\ UNCHANGED <<ext_closed, tasks, bg, sched, fail_msgs>>

ExtNext ==
  \/ \E t \in TaskIds, s \in ShuffleIds, run_id \in RunIds :
       GetShuffleRun(t, s, run_id) /\ UNCHANGED runVars
  \/ \E t \in TaskIds, s \in ShuffleIds :
       GetOrCreateShuffle(t, s) /\ UNCHANGED runVars
  \/ \E t \in TaskIds : SchedulerShuffleGet(t) /\ UNCHANGED runVars
  \/ \E s \in ShuffleIds : SchedulerRestart(s) /\ UNCHANGED runVars
  \/ \E t \in TaskIds : RefreshShuffle(t) /\ UNCHANGED runVars
  \/ \E r \in 1..MaxRuns : RunLatch(r) /\ UNCHANGED runVars
  \/ \E s \in ShuffleIds, run_id \in RunIds :
       ShuffleFail(s, run_id) /\ UNCHANGED runVars
  \/ \E r \in 1..MaxRuns : BackgroundCloseBegin(r) /\ UNCHANGED runVars
  \/ \E r \in 1..MaxRuns : BackgroundCloseEnd(r) /\ UNCHANGED runVars
  \/ ExtCloseBegin /\ UNCHANGED runVars
  \/ ExtCloseStep /\ UNCHANGED runVars

(***************************************************************************)
(* One ShuffleRun on the worker at LocalAddress.                           *)
(***************************************************************************)
MaxCalls == 3    \* coroutines started on the run
MaxInputs == 2   \* input partition ids
MaxBatch == 2    \* (input_partition, bytes) pairs in one shuffle_receive

LocalAddress == "A"
Workers == {"A", "B"}
Parts == {0, 1, 2}
\* ShuffleRun.worker_for: output partition -> worker address.
worker_for == [p \in Parts |-> IF p = 1 THEN "B" ELSE "A"]
IPs == 1..MaxInputs
CoIds == 1..MaxCalls

\* The output partitions the rows of input partition ip sent to this worker
\* belong to: what split_by_partition finds in the shard's bytes.
PartsOf(ip) == IF ip % 2 = 1 THEN {0} ELSE {0, 2}
\* sizeof((input_partition, bytes)).
SizeOf(ip) == 1 + Cardinality(PartsOf(ip))

\* The shards of the comm buffer, <<destination, input_partition>>, and of the
\* disk buffer, <<output partition, input_partition>>.
CommShards == Workers \X IPs
DiskShards == {sh \in Parts \X IPs : sh[1] \in PartsOf(sh[2])}
Batches == UNION {[1..n -> IPs] : n \in 1..MaxBatch}
FailExcs == {"PeerFailed"}

(***************************************************************************)
(* ShardsBuffer: per-destination queues drained by background flushers.    *)
(***************************************************************************)
\* A fresh buffer.  wr and sent are its counters: how often write accepted each
\* shard, and which shards were handed to the sink.
NewBuffer(shards) ==
  [q |-> {}, inflight |-> {}, sent |-> {},
   wr |-> [sh \in shards |-> 0], exc |-> NoExc, closes |-> 0]

\* The shards write has accepted so far.
Written(b) == {sh \in DOMAIN b.wr : b.wr[sh] > 0}

\* write(data): fails fast on the sticky exception, else appends to the queues.
BufferWrite(b, data) ==
  [b EXCEPT !.q = @ \cup data,
            !.wr = [sh \in DOMAIN @ |-> IF sh \in data THEN @[sh] + 1 ELSE @[sh]]]

Pending_(b) == b.q \cup b.inflight
QueueOf(b, d) == {sh \in b.q : sh[1] = d}

\* The destinations a flusher may take: queued, and with no flush in flight.
Takeable(b) == {sh[1] : sh \in b.q} \ {sh[1] : sh \in b.inflight}

\* Largest-first: a flusher takes the takeable destination with the largest
\* queue.
Largest(b, d) ==
  /\ d \in Takeable(b)
  /\ \A e \in Takeable(b) :
        Cardinality(QueueOf(b, e)) <= Cardinality(QueueOf(b, d))

\* The flusher takes the whole queue of destination d.
BufferTake(b, d) ==
  [b EXCEPT !.q = @ \ QueueOf(b, d), !.inflight = @ \cup QueueOf(b, d)]

\* The sink returned for destination d: the bytes are released, a failure is
\* recorded as the sticky exception.
BufferDone(b, d, e) ==
  [b EXCEPT !.inflight = {sh \in @ : sh[1] # d},
            !.exc = IF e # NoExc /\ @ = NoExc THEN e ELSE @]

\* flush() called with `snap` pending returns once all of it left the buffer.
FlushReturns(b, snap) == snap \cap Pending_(b) = {}

\* close() returns once the buffer is drained.
Drained(b) == Pending_(b) = {}

(***************************************************************************)
(* ShuffleRun.                                                             *)
(***************************************************************************)
\* A coroutine: its operation and argument, its position, what it holds across
\* its awaits (items, snap), and what was there when it was called (pre).
IdleCo ==
  [op |-> "none", pc |-> "idle", arg |-> 0, items |-> <<>>, snap |-> {},
   pre |-> {}]

\* The outcome of a call: what it returned (res = "ok", out) or the error it
\* raised (res), and the await it came back from (via).
NoCall ==
  [op |-> "none", arg |-> 0, pre |-> {}, res |-> "none", out |-> {},
   via |-> "idle"]

RunInit ==
  /\ closed = FALSE
  /\ closed_event = FALSE
  /\ transferred = FALSE
  /\ received = {}
  /\ total_recvd = 0
  /\ exception = NoExc
  /\ comm = NewBuffer(CommShards)
  /\ disk = NewBuffer(DiskShards)
  /\ executor = 0
  /\ co = [c \in CoIds |-> IdleCo]
  /\ calls = 0
  /\ last = NoCall

\* Mutant: raise_if_closed raises only once the teardown has finished.
RaiseIfClosed_AfterTeardown ==
  IF closed_event
  THEN IF exception # NoExc THEN exception ELSE "ShuffleClosedError"
  ELSE NoExc

\* raise_if_closed: the error it raises, NoExc when it returns.
RaiseIfClosed ==
  IF closed
  THEN IF exception # NoExc THEN exception ELSE "ShuffleClosedError"
  ELSE NoExc

\* A new coroutine takes the first free slot.
CanStart(c) ==
  /\ calls < MaxCalls
  /\ co[c].pc = "idle"
  /\ \A d \in CoIds : d < c => co[d].pc # "idle"

\* The coroutine suspends at rec.pc.
Suspend(c, rec) ==
  /\ co' = [co EXCEPT ![c] = rec]
  /\ last' = last

\* The coroutine returns `out` (res = "ok") or raises res: its frame is dropped.
Finish(c, rec, res, out) ==
  /\ co' = [co EXCEPT ![c] = IdleCo]
  /\ last' = [op |-> rec.op, arg |-> rec.arg, pre |-> rec.pre, res |-> res,
              out |-> out, via |-> co[c].pc]

\* ---- fail ----
\* Mutant: fail without the `if not self.closed` guard.
Fail_EvenIfClosed(e) ==
  /\ exception' = e
  /\ UNCHANGED <<closed, closed_event, transferred, received, total_recvd,
                 comm, disk, executor, co, calls, last>>

Fail(e) ==
  /\ exception' = IF ~closed THEN e ELSE exception
  /\ UNCHANGED <<closed, closed_event, transferred, received, total_recvd,
                 comm, disk, executor, co, calls, last>>

\* ---- add_partition ----
\* The output partitions the rows of the input partition `ip` held by this
\* worker hash to.
DataOf(ip) == IF ip % 2 = 1 THEN {1} ELSE {0, 1}

\* split_by_worker: one shard per destination worker that gets rows of `data`.
SplitByWorker(data, ip) == {<<worker_for[p], ip>> : p \in data}

\* Mutant: add_partition without its `transferred` check.
AddPartitionRejects_Never == FALSE

\* add_partition refuses new input once the barrier has been reached.
AddPartitionRejects == transferred

\* add_partition(data, input_partition) up to the CPU offload.
AddPartition(c, ip) ==
  /\ CanStart(c)
  /\ calls' = calls + 1
  /\ LET rec == [IdleCo EXCEPT !.op = "add_partition", !.arg = ip,
                               !.pc = "offload",
                               !.snap = SplitByWorker(DataOf(ip), ip)]
     IN IF RaiseIfClosed # NoExc THEN Finish(c, rec, RaiseIfClosed, {})
        ELSE IF AddPartitionRejects THEN Finish(c, rec, "RuntimeError", {})
        ELSE Suspend(c, rec)
  /\ UNCHANGED <<closed, closed_event, transferred, received, total_recvd,
                 exception, comm, disk, executor>>

\* The outcomes of an awaited offload: the function's result, its error, or the
\* cancellation of a future the executor's shutdown cancelled.
OffloadOutcomes ==
  {"ok", "CodecError"} \cup (IF executor > 0 THEN {"CancelledError"} ELSE {})

\* The offload returned: _write_to_comm, then return run_id.  The buffer's write
\* queues the shards when it is called; waiting for the limiter afterwards only
\* delays the return.
AddPartitionWrite(c, outcome) ==
  /\ co[c].op = "add_partition"
  /\ co[c].pc = "offload"
  /\ outcome \in OffloadOutcomes
  /\ LET e == IF outcome # "ok" THEN outcome
              ELSE IF RaiseIfClosed # NoExc THEN RaiseIfClosed
              ELSE comm.exc
     IN IF e = NoExc
        THEN /\ comm' = BufferWrite(comm, co[c].snap)
             /\ Finish(c, co[c], "ok", {})
        ELSE /\ comm' = comm
             /\ Finish(c, co[c], e, {})
  /\ UNCHANGED <<closed, closed_event, transferred, received, total_recvd,
                 exception, disk, executor, calls>>

\* ---- the comm buffer's flushers: send ----
\* send(address, shards): raise_if_closed, then the shuffle_receive RPC.
CommFlushBegin(d) ==
  /\ Largest(comm, d)
  /\ IF RaiseIfClosed # NoExc
     THEN comm' = BufferDone(BufferTake(comm, d), d, RaiseIfClosed)
     ELSE comm' = [BufferTake(comm, d) EXCEPT !.sent = @ \cup QueueOf(comm, d)]
  /\ UNCHANGED <<closed, closed_event, transferred, received, total_recvd,
                 exception, disk, executor, co, calls, last>>

\* The shuffle_receive RPC to d returned, or failed.
CommFlushEnd(d, ok) ==
  /\ \E sh \in comm.inflight : sh[1] = d
  /\ comm' = BufferDone(comm, d, IF ok THEN NoExc ELSE "SendError")
  /\ UNCHANGED <<closed, closed_event, transferred, received, total_recvd,
                 exception, disk, executor, co, calls, last>>

\* ---- inputs_done ----
\* inputs_done up to the awaited flush of the comm buffer.
InputsDone(c) ==
  /\ CanStart(c)
  /\ calls' = calls + 1
  /\ LET rec == [IdleCo EXCEPT !.op = "inputs_done", !.pc = "flush",
                               !.pre = Written(comm), !.snap = Pending_(comm)]
     IN IF RaiseIfClosed # NoExc
        THEN Finish(c, rec, RaiseIfClosed, {}) /\ transferred' = transferred
        ELSE IF transferred
        THEN Finish(c, rec, "AssertionError", {}) /\ transferred' = transferred
        ELSE Suspend(c, rec) /\ transferred' = TRUE
  /\ UNCHANGED <<closed, closed_event, received, total_recvd, exception, comm,
                 disk, executor>>

\* Mutant: inputs_done does not await the flush.
InputsDoneFlushed_NoWait(c) == TRUE

\* Whether the flush inputs_done awaits has returned.
InputsDoneFlushed(c) == FlushReturns(comm, co[c].snap)

\* The flush returned: raise_on_exception, latching the buffer's error.
InputsDoneReturn(c) ==
  /\ co[c].op = "inputs_done"
  /\ co[c].pc = "flush"
  /\ InputsDoneFlushed(c)
  /\ IF comm.exc # NoExc
     THEN Finish(c, co[c], comm.exc, {}) /\ exception' = comm.exc
     ELSE Finish(c, co[c], "ok", {}) /\ exception' = exception
  /\ UNCHANGED <<closed, closed_event, transferred, received, total_recvd,
                 comm, disk, executor, calls>>

\* ---- receive ----
\* Mutant: _receive without the deduplication by `received`.
Filtered_NoDedup(data, recvd) == data

\* The loop of _receive over the batch: the payloads of the input partitions not
\* yet in `received`, in order; each is marked received as it is taken.
RECURSIVE Filtered(_, _)
Filtered(data, recvd) ==
  IF data = <<>> THEN <<>>
  ELSE IF Head(data) \in recvd THEN Filtered(Tail(data), recvd)
  ELSE <<Head(data)>> \o Filtered(Tail(data), recvd \cup {Head(data)})

Ids(data) == {data[k] : k \in DOMAIN data}

RECURSIVE SumSizes(_)
SumSizes(data) ==
  IF data = <<>> THEN 0 ELSE SizeOf(Head(data)) + SumSizes(Tail(data))

\* _repartition_buffers: the filtered shards regrouped by output partition.
RepartitionBuffers(filtered) ==
  {sh \in DiskShards : sh[2] \in Ids(filtered)}

\* receive(data) up to the CPU offload, or to its return when nothing is new.
Receive(c, data) ==
  /\ CanStart(c)
  /\ calls' = calls + 1
  /\ LET filtered == Filtered(data, received)
         rec == [IdleCo EXCEPT !.op = "receive", !.pc = "offload",
                               !.arg = data, !.pre = received,
                               !.items = filtered]
     IN IF RaiseIfClosed # NoExc
        THEN /\ Finish(c, rec, RaiseIfClosed, {})
             /\ UNCHANGED <<received, total_recvd>>
        ELSE /\ received' = received \cup Ids(filtered)
             /\ total_recvd' = total_recvd + SumSizes(filtered)
             /\ IF filtered = <<>> THEN Finish(c, rec, "ok", {})
                ELSE Suspend(c, rec)
  /\ UNCHANGED <<closed, closed_event, transferred, exception, comm, disk,
                 executor>>

\* The offload returned: _write_to_disk; any Exception of the two is latched.
ReceiveWrite(c, outcome) ==
  /\ co[c].op = "receive"
  /\ co[c].pc = "offload"
  /\ outcome \in OffloadOutcomes
  /\ LET e == IF outcome # "ok" THEN outcome
              ELSE IF RaiseIfClosed # NoExc THEN RaiseIfClosed
              ELSE disk.exc
     IN IF e = NoExc
        THEN /\ disk' = BufferWrite(disk, RepartitionBuffers(co[c].items))
             /\ Finish(c, co[c], "ok", {})
             /\ exception' = exception
        ELSE /\ disk' = disk
             /\ Finish(c, co[c], e, {})
             \* CancelledError is no Exception: `except Exception` lets it pass.
             /\ exception' = IF e = "CancelledError" THEN exception ELSE e
  /\ UNCHANGED <<closed, closed_event, transferred, received, total_recvd,
                 comm, executor, calls>>

\* ---- the disk buffer's flushers: dump_shards ----
DiskFlushBegin(p) ==
  /\ Largest(disk, p)
  /\ disk' = BufferTake(disk, p)
  /\ UNCHANGED <<closed, closed_event, transferred, received, total_recvd,
                 exception, comm, executor, co, calls, last>>

\* dump_shards appended the shards to the file of partition p, or failed.
DiskFlushEnd(p, ok) ==
  /\ \E sh \in disk.inflight : sh[1] = p
  /\ disk' = [BufferDone(disk, p, IF ok THEN NoExc ELSE "DiskError")
                EXCEPT !.sent = IF ok THEN @ \cup {sh \in disk.inflight : sh[1] = p}
                                ELSE @]
  /\ UNCHANGED <<closed, closed_event, transferred, received, total_recvd,
                 exception, comm, executor, co, calls, last>>

\* DiskShardsBuffer.read(i): the file of partition i (empty: KeyError).
DiskRead(i) == {sh \in disk.sent : sh[1] = i}

\* ---- get_output_partition ----
\* Mutant: get_output_partition without the check of the partition's owner.
GetOutputAsserts_NoOwner(i) == transferred

\* What get_output_partition asserts before it touches the disk buffer.
GetOutputAsserts(i) == transferred /\ worker_for[i] = LocalAddress

\* get_output_partition(i) up to the awaited flush of the disk buffer.
GetOutputPartition(c, i) ==
  /\ CanStart(c)
  /\ calls' = calls + 1
  /\ LET rec == [IdleCo EXCEPT !.op = "get_output_partition", !.arg = i,
                               !.pc = "flush", !.pre = received,
                               !.snap = Pending_(disk)]
     IN IF RaiseIfClosed # NoExc THEN Finish(c, rec, RaiseIfClosed, {})
        ELSE IF ~GetOutputAsserts(i) THEN Finish(c, rec, "AssertionError", {})
        ELSE Suspend(c, rec)
  /\ UNCHANGED <<closed, closed_event, transferred, received, total_recvd,
                 exception, comm, disk, executor>>

\* The flush returned: _read_from_disk, an empty table on KeyError.
GetOutputRead(c) ==
  /\ co[c].op = "get_output_partition"
  /\ co[c].pc = "flush"
  /\ FlushReturns(disk, co[c].snap)
  /\ IF RaiseIfClosed # NoExc THEN Finish(c, co[c], RaiseIfClosed, {})
     ELSE Finish(c, co[c], "ok", DiskRead(co[c].arg))
  /\ UNCHANGED <<closed, closed_event, transferred, received, total_recvd,
                 exception, comm, disk, executor, calls>>

\* ---- flush_receive ----
\* flush_receive() up to the awaited flush of the disk buffer.
FlushReceive(c) ==
  /\ CanStart(c)
  /\ calls' = calls + 1
  /\ LET rec == [IdleCo EXCEPT !.op = "flush_receive", !.pc = "flush",
                               !.pre = received, !.snap = Pending_(disk)]
     IN IF RaiseIfClosed # NoExc THEN Finish(c, rec, RaiseIfClosed, {})
        ELSE Suspend(c, rec)
  /\ UNCHANGED <<closed, closed_event, transferred, received, total_recvd,
                 exception, comm, disk, executor>>

\* The flush returned.
FlushReceiveReturn(c) ==
  /\ co[c].op = "flush_receive"
  /\ co[c].pc = "flush"
  /\ FlushReturns(disk, co[c].snap)
  /\ Finish(c, co[c], "ok", {})
  /\ UNCHANGED <<closed, closed_event, transferred, received, total_recvd,
                 exception, comm, disk, executor, calls>>

\* ---- barrier ----
\* barrier() up to the awaited scheduler.shuffle_barrier RPC.
Barrier(c) ==
  /\ CanStart(c)
  /\ calls' = calls + 1
  /\ LET rec == [IdleCo EXCEPT !.op = "barrier", !.pc = "shuffle_barrier"]
     IN IF RaiseIfClosed # NoExc THEN Finish(c, rec, RaiseIfClosed, {})
        ELSE Suspend(c, rec)
  /\ UNCHANGED <<closed, closed_event, transferred, received, total_recvd,
                 exception, comm, disk, executor>>

\* The scheduler answered the shuffle_barrier RPC, or the RPC failed.
BarrierReturn(c, ok) ==
  /\ co[c].op = "barrier"
  /\ co[c].pc = "shuffle_barrier"
  /\ Finish(c, co[c], IF ok THEN "ok" ELSE "CommClosedError", {})
  /\ UNCHANGED <<closed, closed_event, transferred, received, total_recvd,
                 exception, comm, disk, executor, calls>>

\* ---- close ----
\* Mutant: close refuses to tear down a failed run.
CloseTearsDown_UnlessFailed == ~closed /\ exception = NoExc

\* Mutant: close without the `if self.closed` latch.
CloseTearsDown_Always == TRUE

\* Whether this call of close does the teardown (else it awaits closed_event).
CloseTearsDown == ~closed

\* close() up to its first await.
Close(c) ==
  /\ CanStart(c)
  /\ calls' = calls + 1
  /\ LET rec == [IdleCo EXCEPT !.op = "close"] IN
       IF CloseTearsDown
       THEN /\ closed' = TRUE
            /\ Suspend(c, [rec EXCEPT !.pc = "comm_close"])
       ELSE /\ closed' = closed
            /\ Suspend(c, [rec EXCEPT !.pc = "wait"])
  /\ UNCHANGED <<closed_event, transferred, received, total_recvd, exception,
                 comm, disk, executor>>

\* The comm buffer's close returned; the disk buffer's close is awaited.
CloseComm(c) ==
  /\ co[c].op = "close"
  /\ co[c].pc = "comm_close"
  /\ Drained(comm)
  /\ comm' = [comm EXCEPT !.closes = @ + 1]
  /\ Suspend(c, [co[c] EXCEPT !.pc = "disk_close"])
  /\ UNCHANGED <<closed, closed_event, transferred, received, total_recvd,
                 exception, disk, executor, calls>>

\* The disk buffer's close returned (the scratch directory is deleted); the
\* executor is shut down and closed_event is set.
CloseDisk(c) ==
  /\ co[c].op = "close"
  /\ co[c].pc = "disk_close"
  /\ Drained(disk)
  /\ disk' = [disk EXCEPT !.closes = @ + 1, !.sent = {}]
  /\ executor' = executor + 1
  /\ closed_event' = TRUE
  /\ Finish(c, co[c], "ok", {})
  /\ UNCHANGED <<closed, transferred, received, total_recvd, exception, comm,
                 calls>>

\* A close that found the run closed returns once closed_event is set.
CloseWaited(c) ==
  /\ co[c].op = "close"
  /\ co[c].pc = "wait"
  /\ closed_event
  /\ Finish(c, co[c], "ok", {})
  /\ UNCHANGED <<closed, closed_event, transferred, received, total_recvd,
                 exception, comm, disk, executor, calls>>

RunNext ==
  \/ \E e \in FailExcs : Fail(e) /\ UNCHANGED extVars
  \/ \E c \in CoIds, ip \in IPs : AddPartition(c, ip) /\ UNCHANGED extVars
  \/ \E c \in CoIds, o \in {"ok", "CodecError", "CancelledError"} :
       AddPartitionWrite(c, o) /\ UNCHANGED extVars
  \/ \E d \in Workers : CommFlushBegin(d) /\ UNCHANGED extVars
  \/ \E d \in Workers, ok \in BOOLEAN : CommFlushEnd(d, ok) /\ UNCHANGED extVars
  \/ \E c \in CoIds : InputsDone(c) /\ UNCHANGED extVars
  \/ \E c \in CoIds : InputsDoneReturn(c) /\ UNCHANGED extVars
  \/ \E c \in CoIds, data \in Batches : Receive(c, data) /\ UNCHANGED extVars
  \/ \E c \in CoIds, o \in {"ok", "CodecError", "CancelledError"} :
       ReceiveWrite(c, o) /\ UNCHANGED extVars
  \/ \E p \in Parts : DiskFlushBegin(p) /\ UNCHANGED extVars
  \/ \E p \in Parts, ok \in BOOLEAN : DiskFlushEnd(p, ok) /\ UNCHANGED extVars
  \/ \E c \in CoIds, i \in Parts : GetOutputPartition(c, i) /\ UNCHANGED extVars
  \/ \E c \in CoIds : GetOutputRead(c) /\ UNCHANGED extVars
  \/ \E c \in CoIds : FlushReceive(c) /\ UNCHANGED extVars
  \/ \E c \in CoIds : FlushReceiveReturn(c) /\ UNCHANGED extVars
  \/ \E c \in CoIds : Barrier(c) /\ UNCHANGED extVars
  \/ \E c \in CoIds, ok \in BOOLEAN : BarrierReturn(c, ok) /\ UNCHANGED extVars
  \/ \E c \in CoIds : Close(c) /\ UNCHANGED extVars
  \/ \E c \in CoIds : CloseComm(c) /\ UNCHANGED extVars
  \/ \E c \in CoIds : CloseDisk(c) /\ UNCHANGED extVars
  \/ \E c \in CoIds : CloseWaited(c) /\ UNCHANGED extVars

Init == ExtInit /\ RunInit
Spec == Init /\ [][ExtNext]_vars
RunSpec == Init /\ [][RunNext]_vars

\* The event loop runs every ready coroutine, and every awaited sink call (an
\* RPC, a file write) returns or raises: the flushers and the segments of close
\* that are ready are eventually run.
RunFairness ==
  /\ WF_vars(\E d \in Workers : CommFlushBegin(d) /\ UNCHANGED extVars)
  /\ WF_vars(\E d \in Workers, ok \in BOOLEAN :
               CommFlushEnd(d, ok) /\ UNCHANGED extVars)
  /\ WF_vars(\E p \in Parts : DiskFlushBegin(p) /\ UNCHANGED extVars)
  /\ WF_vars(\E p \in Parts, ok \in BOOLEAN :
               DiskFlushEnd(p, ok) /\ UNCHANGED extVars)
  /\ WF_vars(\E c \in CoIds : CloseComm(c) /\ UNCHANGED extVars)
  /\ WF_vars(\E c \in CoIds : CloseDisk(c) /\ UNCHANGED extVars)
  /\ WF_vars(\E c \in CoIds : CloseWaited(c) /\ UNCHANGED extVars)

FairRunSpec == RunSpec /\ RunFairness

\* The worker's background tasks are run, and a run's close (its buffers'
\* closes) returns: the segments of the background closes and of the
\* extension's close that are ready are eventually run.
ExtFairness ==
  /\ WF_vars(\E r \in 1..MaxRuns : BackgroundCloseBegin(r) /\ UNCHANGED runVars)
  /\ WF_vars(\E r \in 1..MaxRuns : BackgroundCloseEnd(r) /\ UNCHANGED runVars)
  /\ WF_vars(ExtCloseStep /\ UNCHANGED runVars)

FairSpec == Spec /\ ExtFairness

(***************************************************************************)
(* Claims about the registry (Spec).                                       *)
(***************************************************************************)

\* C1 (as claimed): no two ShuffleRun objects constructed on the worker have the
\* same shuffle_id and run_id.
C1_OneRunPerRunId ==
  \A a, b \in RunRefs :
    (runs[a].id = runs[b].id /\ runs[a].run_id = runs[b].run_id) => a = b

\* A step of _refresh_shuffle that replaces the run installed for s by a new one.
Supersedes(s) ==
  /\ shuffles[s] # 0
  /\ shuffles'[s] # 0
  /\ shuffles'[s] # shuffles[s]

\* C2 (as claimed): when a refresh supersedes the installed run, the prior run
\* has its exception set, has completed close() and is out of `shuffles` and
\* `_runs` by the time the new run is installed.
C2_PriorClosedBeforeInstall ==
  [][\A s \in ShuffleIds :
       Supersedes(s) =>
         LET old == shuffles[s] IN
           /\ runs'[old].exception # NoExc
           /\ runs'[old].closed_event
           /\ old \notin _runs'
           /\ \A x \in ShuffleIds : shuffles'[x] # old]_vars

\* C2 (amended): when a refresh supersedes the installed run, the reply's run_id
\* is strictly greater, and in the state in which the new run is installed (the
\* first in which a lookup can return it) the prior run has its exception set
\* and is out of `shuffles`; its close is only scheduled as a background task,
\* so it is still unclosed and still in `_runs`.
C2_PriorFailedBeforeInstall ==
  [][\A s \in ShuffleIds :
       Supersedes(s) =>
         LET old == shuffles[s]
             new == shuffles'[s]
         IN /\ runs'[new].run_id > runs[old].run_id
            /\ runs'[old].exception = "Stale Shuffle"
            /\ \A x \in ShuffleIds : shuffles'[x] # old
            /\ new \in _runs'
            /\ bg'[old] = "scheduled"
            /\ ~runs'[old].closed
            /\ old \in _runs'
            /\ \A t \in TaskIds :
                 tasks'[t].result.st = "ok" =>
                   tasks'[t].result.run # old \/ tasks[t].result.st = "ok"]_vars

\* C2 witness: a run was evicted by a refresh and an RPC's lookup was admitted
\* to the run that superseded it.
C2_Witness ==
  \E t \in TaskIds, old \in RunRefs :
    /\ runs[old].exception = "Stale Shuffle"
    /\ tasks[t].op = "get_run"
    /\ tasks[t].result.st = "ok"
    /\ runs[tasks[t].result.run].run_id > runs[old].run_id
    /\ shuffles[runs[old].id] = tasks[t].result.run

(***************************************************************************)
(* Claims about one ShuffleRun (RunSpec).                                  *)
(***************************************************************************)
IsCo(c, op, pc) == co[c].op = op /\ co[c].pc = pc

\* The step in which coroutine c, suspended at `pc`, returns or raises.
Returns(c, op, pc) == IsCo(c, op, pc) /\ co'[c].pc = "idle"

\* The step in which a call made by coroutine c returns or raises at once.
ReturnsAtOnce(c) == co[c].pc = "idle" /\ co'[c].pc = "idle" /\ calls' = calls + 1

\* The last call to return was `op`, and it returned without error.
LastOk(op) == last.op = op /\ last.res = "ok"

\* No shard of output partition i was ever written to the disk buffer.
NeverWritten(i) == \A sh \in DiskShards : sh[1] = i => disk.wr[sh] = 0

\* C3 (as claimed): once `transferred` is true it stays true and no shard is
\* written to the comm buffer any more.
C3_NoWriteAfterTransferred ==
  [][transferred => (transferred' /\ comm'.wr = comm.wr)]_vars

\* C4: an add_partition called with transferred = true on an unclosed run raises,
\* changes neither buffer nor `received` nor `total_recvd` (nor the run's flags),
\* and leaves the run usable: a get_output_partition for a local partition called
\* afterwards is admitted and returns its table unless the run is closed first
\* or the disk buffer has failed.
C4_AddAfterInputsDone ==
  /\ [][\A c \in CoIds, ip \in IPs :
          (AddPartition(c, ip) /\ transferred /\ ~closed) =>
            /\ ReturnsAtOnce(c)
            /\ last'.op = "add_partition"
            /\ last'.res = "RuntimeError"
            /\ UNCHANGED <<comm, disk, received, total_recvd, transferred,
                           closed, closed_event, exception, executor>>]_vars
  /\ [][\A c \in CoIds, i \in Parts :
          (GetOutputPartition(c, i) /\ transferred /\ ~closed
             /\ worker_for[i] = LocalAddress) => co'[c].pc = "flush"]_vars
  /\ [][\A c \in CoIds :
          (Returns(c, "get_output_partition", "flush") /\ ~closed
             /\ disk.exc = NoExc) => last'.res = "ok"]_vars

\* C4 witness: an add_partition called after inputs_done on an unclosed run was
\* rejected, with shards in the comm buffer it had to leave alone.
C4_Witness ==
  /\ last.op = "add_partition"
  /\ last.res = "RuntimeError"
  /\ last.via = "idle"
  /\ transferred
  /\ ~closed
  /\ Written(comm) # {}

\* C5: a receive of a batch whose input partitions are all in `received` (a
\* replay) returns without error and changes neither the disk buffer nor
\* `received` nor `total_recvd`; and every admitted receive leaves all ids of its
\* batch in `received`, which never shrinks: so each delivery after the first is
\* such a replay.
C5_ReplayIsNoOp ==
  /\ [][\A c \in CoIds, data \in Batches :
          (Receive(c, data) /\ ~closed) =>
            /\ Ids(data) \subseteq received'
            /\ Ids(data) \subseteq received =>
                 /\ ReturnsAtOnce(c)
                 /\ last'.op = "receive"
                 /\ last'.res = "ok"
                 /\ UNCHANGED <<disk, received, total_recvd>>]_vars
  /\ [][received \subseteq received']_vars

\* C5 witness: a replay of a delivered batch returned without error: its one
\* shard is on the way to disk once, and counted once.
C5_Witness ==
  /\ LastOk("receive")
  /\ last.via = "idle"
  /\ last.arg = <<1>>
  /\ last.pre = {1}
  /\ received = {1}
  /\ total_recvd = SizeOf(1)
  /\ disk.wr[<<0, 1>>] = 1

\* C6 (as claimed): the shards of an input partition are written to the disk
\* buffer never twice, and at least once by the time a receive carrying the
\* input partition returns without error.
C6_ExactlyOnce ==
  /\ [][\A sh \in DiskShards : disk'.wr[sh] <= 1]_vars
  /\ [][\A c \in CoIds :
          ((ReturnsAtOnce(c) \/ Returns(c, "receive", "offload"))
             /\ last'.op = "receive" /\ last'.res = "ok") =>
            \A sh \in DiskShards :
              sh[2] \in Ids(last'.arg) => disk'.wr[sh] = 1]_vars

\* C7: when inputs_done returns without error, every shard written to the comm
\* buffer before it was called has been handed to send; when the comm buffer
\* holds a send's error, inputs_done raises it and it becomes the run's
\* exception.
C7_FlushedBeforeReturn ==
  /\ [](LastOk("inputs_done") => last.pre \subseteq comm.sent)
  /\ [][\A c \in CoIds :
          Returns(c, "inputs_done", "flush") =>
            IF comm.exc = NoExc
            THEN last'.res = "ok"
            ELSE last'.res = comm.exc /\ exception' = comm.exc]_vars

\* C7 witness: inputs_done returned without error with shards written before
\* its call.
C7_Witness ==
  /\ LastOk("inputs_done")
  /\ last.pre # {}

\* C8 (as claimed): get_output_partition(i) returns every shard of partition i
\* whose input partition was delivered to receive before the call.
C8_DeliveredIsRead ==
  LastOk("get_output_partition") =>
    \A ip \in last.pre :
      last.arg \in PartsOf(ip) => <<last.arg, ip>> \in last.out

C10_CloseOnce ==
  /\ comm.closes <= 1
  /\ disk.closes <= 1
  /\ executor <= 1
  /\ closed_event => (comm.closes = 1 /\ disk.closes = 1 /\ executor = 1)
  /\ last.op = "close" => closed_event
  /\ Cardinality({c \in CoIds : co[c].op = "close"
                     /\ co[c].pc \in {"comm_close", "disk_close"}}) <= 1
  /\ \A c \in CoIds : IsCo(c, "close", "wait") => closed

\* C10 witness: a close call that found the run closed has waited for the
\* teardown of the first and returned.
C10_Witness ==
  /\ last.op = "close"
  /\ last.via = "wait"
  /\ closed_event

\* The step in which coroutine c is called with one of the operations that
\* begin with raise_if_closed.
CallsEntry(c) ==
  \/ \E ip \in IPs : AddPartition(c, ip)
  \/ \E data \in Batches : Receive(c, data)
  \/ InputsDone(c)
  \/ \E i \in Parts : GetOutputPartition(c, i)
  \/ FlushReceive(c)
  \/ Barrier(c)

\* C11 (as claimed): once the run's exception is set, every operation called
\* afterwards raises that exception at once and admits no work, closed or not.
C11_StickyException ==
  [][\A c \in CoIds :
       (CallsEntry(c) /\ exception # NoExc) =>
         (ReturnsAtOnce(c) /\ last'.res = exception)]_vars

\* C18: `closed` is never cleared.  Every add_partition, receive, inputs_done,
\* barrier, get_output_partition and flush_receive called on a closed run
\* raises at once, the run's exception if it is set and ShuffleClosedError
\* otherwise, and leaves both buffers, `received`, `total_recvd` and
\* `transferred` alone and no scheduler RPC pending; a send on a closed run
\* raises the same error to the comm buffer and sends nothing.
C18_ClosedIsTerminal ==
  /\ [][closed => closed']_vars
  /\ [][\A c \in CoIds :
          (closed /\ CallsEntry(c)) =>
            /\ ReturnsAtOnce(c)
            /\ last'.res = IF exception # NoExc THEN exception
                           ELSE "ShuffleClosedError"
            /\ comm' = comm
            /\ disk' = disk
            /\ received' = received
            /\ total_recvd' = total_recvd
            /\ transferred' = transferred
            /\ exception' = exception]_vars
  /\ [][\A d \in Workers :
          (closed /\ CommFlushBegin(d)) =>
            /\ comm'.sent = comm.sent
            /\ comm'.wr = comm.wr
            /\ \A sh \in comm'.inflight : sh[1] # d
            /\ comm'.exc # NoExc
            /\ comm.exc = NoExc =>
                 comm'.exc = IF exception # NoExc THEN exception
                             ELSE "ShuffleClosedError"]_vars

\* C18 witness: on a closed run that had failed, a send raised the run's
\* exception to the comm buffer and a call raised it at once.
C18_Witness ==
  /\ closed
  /\ exception = "PeerFailed"
  /\ comm.exc = "PeerFailed"
  /\ last.op \in {"add_partition", "receive", "inputs_done", "barrier",
                  "get_output_partition", "flush_receive"}
  /\ last.via = "idle"
  /\ last.res = "PeerFailed"

\* C19 (as claimed): once the run's exception is set, its value never changes,
\* whatever fail calls, failing receives and failing inputs_done follow.
C19_FirstErrorLatched ==
  [][exception # NoExc => exception' = exception]_vars

\* The run as the registry sees it, and what a _get_shuffle_run of its
\* shuffle_id and run_id does with it while it is the installed run.
ThisRun ==
  [ShuffleRun("s1", 1) EXCEPT !.exception = exception, !.closed = closed,
                              !.closed_event = closed_event]
LookupOfRun == GetRunChecks(<<ThisRun>>, 1, 1)

\* The errors only the receive path stores in the run's exception.
ReceiveErrors == {"CodecError", "DiskError"}

\* A receive whose offload or disk-buffer write fails leaves with its error
\* stored in the run's exception and the ids of its batch in `received`.
C20_LatchedOnFailure ==
  [][\A c \in CoIds :
       (IsCo(c, "receive", "offload") /\ co'[c].pc = "idle"
          /\ last'.res # "ok") =>
         /\ exception' = last'.res
         /\ Ids(co[c].arg) \subseteq received'
         /\ LookupOfRun' = Err(last'.res)]_vars

\* While the run stays installed (fail is only called on a run just taken out
\* of `shuffles`), lookups keep raising the error a receive stored.
C20_TaintPersists ==
  [][(exception \in ReceiveErrors /\ ~(\E e \in FailExcs : Fail(e))) =>
       LookupOfRun' = Err(exception)]_vars

\* C20 (as claimed): if the offload or the disk-buffer write inside receive
\* fails, the error is stored in the run's exception before it reaches the
\* caller, every lookup of the run that starts afterwards raises that error,
\* and the ids of the failed batch remain in `received`.
C20_ReceiveErrorTaints == C20_LatchedOnFailure /\ C20_TaintPersists

\* C22: fail(exc) changes only the run's exception: `closed`, `transferred`,
\* `received`, `total_recvd`, both buffers, the executor and every coroutine
\* (so no close is started) stay as they are; on an open run the exception
\* becomes exc, on a closed run it stays as it is.
C22_FailOnlySetsException ==
  [][\A e \in FailExcs :
       Fail(e) =>
         /\ UNCHANGED <<closed, closed_event, transferred, received,
                        total_recvd, comm, disk, executor, co>>
         /\ exception' = IF closed THEN exception ELSE e]_vars

\* C22 witness: fail has set the exception of an open run that holds received
\* input, queued output and has passed the barrier.
C22_Witness ==
  /\ exception = "PeerFailed"
  /\ ~closed
  /\ transferred
  /\ received # {}
  /\ comm.q # {}

(***************************************************************************)
(* Claims about the lookups (Spec).                                        *)
(***************************************************************************)
\* The step in which lookup t is called, and the one in which it returns or
\* raises.
LookupCalled(t) == tasks[t].pc = "idle" /\ tasks'[t].pc # "idle"
LookupReturns(t) == tasks[t].pc # "done" /\ tasks'[t].pc = "done"

\* C12: _get_shuffle_run(shuffle_id, run_id) called with a local run of a
\* greater run_id raises "Stale shuffle" in the calling step, sends no
\* shuffle_get and leaves the registry alone.  Whenever it returns or raises,
\* after the refresh if it made one (and the refresh itself did not raise), the
\* outcome is decided by the run r it holds: "Stale shuffle" when the requested
\* run_id is less than r's, "Invalid shuffle state" when it is greater (only
\* after a refresh), r's exception when they are equal and r is failed, and r
\* itself only when they are equal and r's exception is unset.
C12_GetShuffleRun ==
  /\ [][\A t \in TaskIds :
          (LookupCalled(t) /\ tasks'[t].op = "get_run"
             /\ shuffles[tasks'[t].id] # 0
             /\ tasks'[t].run_id < runs[shuffles[tasks'[t].id]].run_id) =>
            /\ tasks'[t].pc = "done"
            /\ tasks'[t].result = Err("Stale shuffle")
            /\ UNCHANGED <<shuffles, _runs, runs, sched, bg>>]_vars
  /\ [][\A t \in TaskIds :
          (LookupReturns(t) /\ tasks'[t].op = "get_run") =>
            LET req == tasks'[t].run_id
                res == tasks'[t].result
                refreshed == tasks[t].pc = "got_reply"
                r == IF refreshed THEN shuffles'[tasks'[t].id]
                     ELSE shuffles[tasks'[t].id]
            IN /\ res.st = "ok" =>
                    /\ runs'[res.run].run_id = req
                    /\ runs'[res.run].id = tasks'[t].id
                    /\ runs'[res.run].exception = NoExc
               /\ ~(refreshed /\ (tasks[t].reply = 0 \/ ext_closed)) =>
                    /\ r # 0
                    /\ req < runs'[r].run_id => res = Err("Stale shuffle")
                    /\ req > runs'[r].run_id =>
                         (refreshed /\ res = Err("Invalid shuffle state"))
                    /\ (req = runs'[r].run_id /\ runs'[r].exception # NoExc) =>
                         res = Err(runs'[r].exception)
                    /\ (req = runs'[r].run_id /\ runs'[r].exception = NoExc) =>
                         res = Ok(r)]_vars

\* C12 witness: one _get_shuffle_run returned a run, an RPC handler latched an
\* error in it, and a second _get_shuffle_run for the same run_id raised that
\* error.
C12_Witness ==
  \E a, b \in TaskIds :
    /\ tasks[a].op = "get_run" /\ tasks[a].result.st = "ok"
    /\ tasks[b].op = "get_run" /\ tasks[b].run_id = tasks[a].run_id
    /\ tasks[b].id = tasks[a].id
    /\ tasks[b].result = Err("HandlerError")

\* C13 (as claimed): a shuffle_fail that finds the run r it names removes r from
\* `shuffles` and sets its exception in that step; afterwards no lookup returns
\* r, and no run with r's shuffle_id and run_id is installed in `shuffles`.
C13_FailIsFinal ==
  /\ [][\A s \in ShuffleIds, run_id \in RunIds :
          (ShuffleFail(s, run_id) /\ FailApplies(s, run_id)) =>
            /\ shuffles'[s] = 0
            /\ runs'[shuffles[s]].exception = "ShuffleFail"]_vars
  /\ [][\A t \in TaskIds :
          (LookupReturns(t) /\ tasks'[t].result.st = "ok") =>
            runs'[tasks'[t].result.run].exception = NoExc]_vars
  /\ [](\A r, n \in RunRefs :
          (runs[r].exception = "ShuffleFail" /\ shuffles[runs[n].id] = n) =>
            ~(runs[n].id = runs[r].id /\ runs[n].run_id = runs[r].run_id))

\* C14: a shuffle_fail for a shuffle with no local run, or whose local run has
\* another run_id, changes nothing: `shuffles`, `_runs`, every run (exception,
\* closed), the background tasks and the lookups stay as they are.
C14_FailMismatchNoOp ==
  [][\A s \in ShuffleIds, run_id \in RunIds :
       (ShuffleFail(s, run_id)
          /\ (shuffles[s] = 0 \/ runs[shuffles[s]].run_id # run_id)) =>
         UNCHANGED <<shuffles, _runs, runs, bg, tasks, ext_closed, ext_pc,
                     remove_err>>]_vars

\* C14 witness: the shuffle-fail for run_id 1 of a shuffle was handled on a
\* worker that never had that run, and the run of run_id 2 it has is installed
\* and not failed.
C14_Witness ==
  \E s \in ShuffleIds :
    /\ sched[s] = 2
    /\ <<s, 1>> \notin fail_msgs
    /\ shuffles[s] # 0
    /\ runs[shuffles[s]].run_id = 2
    /\ runs[shuffles[s]].exception = NoExc
    /\ \A r \in RunRefs : runs[r].id = s => runs[r].run_id = 2

\* C16 (as claimed): two ShuffleRun objects of the worker with the same scratch
\* directory have both finished close(); so the close of an evicted run never
\* deletes the directory of a run that is installed in `shuffles`.
C16_DirectoryNotShared ==
  \A a, b \in RunRefs :
    (a # b /\ Directory(runs[a]) = Directory(runs[b])) =>
      (runs[a].closed_event /\ runs[b].closed_event)

\* C17 (as claimed): when ShuffleWorkerExtension.close returns, `shuffles` and
\* `_runs` are empty and every ShuffleRun constructed so far has completed its
\* close, the evicted ones with a background close included.
C17_ExtCloseComplete ==
  [][(ext_pc.pc # "done" /\ ext_pc'.pc = "done") =>
       /\ \A s \in ShuffleIds : shuffles'[s] = 0
       /\ _runs' = {}
       /\ \A r \in 1..Len(runs') : runs'[r].closed_event]_vars

(***************************************************************************)
(* Claims about the failed and the closed ShuffleRun (RunSpec, FairRunSpec).*)
(***************************************************************************)
\* C15: close() called on a failed, not yet closed run does the teardown like
\* any other: it sets `closed` and awaits the comm buffer's close; a run once
\* closed, failed or not, eventually has closed_event set, with both buffers
\* closed, the scratch files gone and the executor shut down; and in the end no
\* close call is left suspended, the caller's and the waiters' have returned.
C15_CloseOfFailedRun ==
  /\ [][\A c \in CoIds :
          (Close(c) /\ exception # NoExc /\ ~closed) =>
            (closed' /\ IsCo(c, "close", "comm_close")')]_vars
  /\ closed ~> closed_event
  /\ <>[](\A c \in CoIds : co[c].op # "close")
  /\ [](closed_event =>
          (comm.closes = 1 /\ disk.closes = 1 /\ disk.sent = {}
             /\ executor = 1))

\* C15 witness: the close of a failed run has returned from its teardown.
C15_Witness ==
  /\ last.op = "close"
  /\ last.res = "ok"
  /\ last.via = "disk_close"
  /\ exception # NoExc
  /\ closed_event

(***************************************************************************)
(* Claims about _refresh_shuffle and the closed extension (Spec).          *)
(***************************************************************************)
\* The step in which the refresh of lookup t handles an OK reply while
\* `shuffles` holds a run of an equal or greater run_id.
RefreshFindsCurrent(t) ==
  /\ RefreshShuffle(t)
  /\ tasks[t].reply # 0
  /\ shuffles[tasks[t].id] # 0
  /\ runs[shuffles[tasks[t].id]].run_id >= tasks[t].reply

\* A refresh evicts a run found in `shuffles` only for a strictly greater
\* run_id in the reply.
EvictsOnlyOlder ==
  \A t \in TaskIds :
    (RefreshShuffle(t) /\ shuffles[tasks[t].id] # 0
       /\ shuffles'[tasks[t].id] # shuffles[tasks[t].id]) =>
      tasks[t].reply > runs[shuffles[tasks[t].id]].run_id

\* C21 (as claimed): a refresh that gets an OK reply while `shuffles` holds a
\* run of an equal or greater run_id returns that run to its caller, constructs
\* no run, does not fail or close the existing one and leaves `shuffles` and
\* `_runs` alone; a refresh evicts only for a strictly greater run_id.
C21_KeepsCurrentRun ==
  [][/\ \A t \in TaskIds :
          RefreshFindsCurrent(t) =>
            /\ tasks'[t].result =
                  Checks(t, runs, shuffles[tasks[t].id], ext_closed)
            /\ UNCHANGED <<runs, shuffles, _runs, bg>>
     /\ EvictsOnlyOlder]_vars

\* C21 (amended): such a refresh constructs no run, does not fail or close the
\* existing one and leaves `shuffles` and `_runs` alone; it returns the existing
\* run to its caller unless the extension is closed, and raises
\* ShuffleClosedError when it is; a refresh evicts only for a strictly greater
\* run_id.
C21_KeepsCurrentRunUnlessClosed ==
  [][/\ \A t \in TaskIds :
          RefreshFindsCurrent(t) =>
            /\ tasks'[t].result =
                  IF ext_closed THEN Err("ShuffleClosedError")
                  ELSE Checks(t, runs, shuffles[tasks[t].id], FALSE)
            /\ UNCHANGED <<runs, shuffles, _runs, bg>>
     /\ EvictsOnlyOlder]_vars

\* C21 witness: two lookups both refreshed with an OK reply on an open
\* extension and one run was constructed: the later refresh kept it.
C21_Witness ==
  /\ ~ext_closed
  /\ Len(runs) = 1
  /\ \E t, u \in TaskIds :
       /\ t # u
       /\ tasks[t].pc = "done" /\ tasks[t].reply # 0
       /\ tasks[u].pc = "done" /\ tasks[u].reply # 0
       /\ tasks[t].result = Ok(1)
       /\ tasks[u].result = Ok(1)

\* On a closed extension nothing is constructed and nothing is installed in
\* `shuffles`.
NothingInstalledOnceClosed ==
  ext_closed =>
    /\ ext_closed'
    /\ Len(runs') = Len(runs)
    /\ \A s \in ShuffleIds : shuffles'[s] \in {0, shuffles[s]}

\* On a closed extension a _get_or_create_shuffle that returns raises
\* ShuffleClosedError.
GetOrCreateRaisesOnceClosed ==
  \A t \in TaskIds :
    (ext_closed /\ LookupReturns(t) /\ tasks'[t].op = "get_or_create") =>
      tasks'[t].result = Err("ShuffleClosedError")

\* C23 (as claimed): once the extension is closed no run is constructed or
\* installed; a refresh whose reply arrives then raises ShuffleClosedError and
\* leaves `shuffles` and `_runs` alone; _get_or_create_shuffle raises
\* ShuffleClosedError.
C23_ClosedExtensionInstallsNothing ==
  [][/\ NothingInstalledOnceClosed
     /\ GetOrCreateRaisesOnceClosed
     /\ \A t \in TaskIds :
          (ext_closed /\ RefreshShuffle(t)) =>
            /\ tasks'[t].result = Err("ShuffleClosedError")
            /\ UNCHANGED <<runs, shuffles, _runs, bg>>]_vars

\* C23 (amended): once the extension is closed no run is constructed or
\* installed; a refresh whose reply arrives then leaves `shuffles` and `_runs`
\* alone and raises ShuffleClosedError on an OK reply, the scheduler's error on
\* an ERROR reply; _get_or_create_shuffle raises ShuffleClosedError.
C23_ClosedExtensionRefreshRaises ==
  [][/\ NothingInstalledOnceClosed
     /\ GetOrCreateRaisesOnceClosed
     /\ \A t \in TaskIds :
          (ext_closed /\ RefreshShuffle(t)) =>
            /\ tasks'[t].result =
                  IF tasks[t].reply = 0 THEN Err("SchedulerError")
                  ELSE Err("ShuffleClosedError")
            /\ UNCHANGED <<runs, shuffles, _runs, bg>>]_vars

\* C23 witness: on a closed extension a _get_shuffle_run's refresh got an OK
\* reply and raised ShuffleClosedError, and a _get_or_create_shuffle raised it.
C23_Witness ==
  /\ ext_closed
  /\ \E t, u \in TaskIds :
       /\ tasks[t].op = "get_run"
       /\ tasks[t].reply # 0
       /\ tasks[t].result = Err("ShuffleClosedError")
       /\ tasks[u].op = "get_or_create"
       /\ tasks[u].result = Err("ShuffleClosedError")

(***************************************************************************)
(* Claims about `_runs` (FairSpec).                                        *)
(***************************************************************************)
\* Run r was constructed and is no longer in `shuffles`.
Removed(r) == r <= Len(runs) /\ \A s \in ShuffleIds : shuffles[s] # r

\* C24: every run in `shuffles` is in `_runs`; `_runs.remove` never fails on a
\* missing element; and every run taken out of `shuffles` is eventually closed
\* and out of `_runs` (a run never returns to `shuffles` or to `_runs`, so from
\* some point on every removed run is closed and out of `_runs`).
C24_RunsTracked ==
  /\ [](\A s \in ShuffleIds : shuffles[s] # 0 => shuffles[s] \in _runs)
  /\ [](~remove_err)
  /\ [][\A r \in 1..MaxRuns :
          /\ Removed(r) => Removed(r)'
          /\ (Removed(r) /\ r \notin _runs) => r \notin _runs']_vars
  /\ <>[](\A r \in 1..MaxRuns :
            Removed(r) => (runs[r].closed_event /\ r \notin _runs))

\* C24 witness: a run evicted by shuffle_fail, a run evicted by a refresh and
\* a run popped by the extension's close are all closed and out of `_runs`.
C24_Witness ==
  /\ ext_pc.pc = "done"
  /\ _runs = {}
  /\ ~remove_err
  /\ \E a, b, c \in RunRefs :
       /\ runs[a].exception = "ShuffleFail" /\ runs[a].closed_event
       /\ runs[b].exception = "Stale Shuffle" /\ runs[b].closed_event
       /\ runs[c].exception = NoExc /\ runs[c].closed_event

=============================================================================
